---- MODULE Spec2Model ----
(***************************************************************************)
(* Model of src/routes.py: a Flask Blueprint "api" with one view function, *)
(* health_check, registered by @api_routes.route("/health").               *)
(*                                                                         *)
(* The seven source lines only say "register this rule" and "return this   *)
(* dict"; what a request then receives is decided by the Flask/Werkzeug    *)
(* calls those lines make (Blueprint.route, MapAdapter.match,              *)
(* Flask.dispatch_request, Flask.make_response, jsonify).  Those calls are *)
(* modelled here as Flask performs them, each next to the source line that *)
(* invokes it.  The blueprint is taken as mounted without url_prefix, so   *)
(* request paths are the blueprint's own rule paths.                       *)
(***************************************************************************)
EXTENDS Integers, Sequences, FiniteSets, TLC

VARIABLES module, workers, heap, held, first

vars == <<module, workers, heap, held, first>>

-----------------------------------------------------------------------------
(* Bounds of the model                                                     *)

\* Number of server workers (threads) that may be inside a request at once.
MaxWorkers == 2
\* Number of direct callers (tests, hooks) that may hold a returned mapping.
MaxCallers == 1

Workers == 1..MaxWorkers
Callers == 1..MaxCallers
\* One heap cell per possible holder of a mapping.
Addr == 1..(MaxWorkers + MaxCallers)

-----------------------------------------------------------------------------
(* Requests                                                                *)

Methods == {"GET", "HEAD", "OPTIONS", "POST", "PUT", "DELETE", "PATCH"}
Paths == {"/health", "/health/", "/"}
Queries == {"", "verbose=1"}
HeaderSets == {"none", "X-Debug: 1"}
Bodies == {"", "{\"status\": \"down\"}"}

Request(m, p, q, h, b) ==
    [method |-> m, path |-> p, query |-> q, headers |-> h, body |-> b]

\* Every request the serial client may send.
AllRequests ==
    {Request(m, p, q, h, b) : m \in Methods, p \in Paths, q \in Queries,
                              h \in HeaderSets, b \in Bodies}

\* The requests sent while several workers serve at once.
ConcurrentRequests ==
    {Request("GET", "/health", q, "none", "") : q \in Queries}
      \cup {Request(m, "/health", "", "none", "") : m \in {"HEAD", "OPTIONS", "POST"}}
      \cup {Request("GET", "/", "", "none", "")}

NoRequest == Request("", "", "", "", "")

IsHealthGet(req) == req.method = "GET" /\ req.path = "/health"

-----------------------------------------------------------------------------
(* The response mapping and its JSON form                                  *)

STATUS_TEXT == "Backend Case Study API Running"

\* The keys a mapping may hold, in the order sort_keys emits them.
KeyOrder == <<"extra", "status">>
Keys == {KeyOrder[i] : i \in 1..Len(KeyOrder)}
Values == {STATUS_TEXT, "tampered"}

Punct(t) == [kind |-> "punct", text |-> t]
Str(t) == [kind |-> "string", text |-> t]

RECURSIVE dumpsFrom(_, _, _)
\* Members of d from position i of KeyOrder on; sep tells whether a member
\* was already written.
dumpsFrom(d, i, sep) ==
    IF i > Len(KeyOrder) THEN <<>>
    ELSE IF KeyOrder[i] \in DOMAIN d
         THEN (IF sep THEN <<Punct(",")>> ELSE <<>>)
                \o <<Str(KeyOrder[i]), Punct(":"), Str(d[KeyOrder[i]])>>
                \o dumpsFrom(d, i + 1, TRUE)
         ELSE dumpsFrom(d, i + 1, sep)

\* flask.json.provider.DefaultJSONProvider.response: compact, sorted keys,
\* trailing newline.
dumps(d) == <<Punct("{")>> \o dumpsFrom(d, 1, FALSE) \o <<Punct("}"), Punct("\n")>>

\* The other tokens of the JSON grammar, which jsonify never writes for this
\* view but json.loads reads: a number (here an integer n) and the names
\* true, false, null, NaN, Infinity and -Infinity.
Num(n) == [kind |-> "number", text |-> n]
Lit(t) == [kind |-> "literal", text |-> t]

\* JSON values as json.loads returns them: str, int, bool, None, float, and
\* dicts and lists of such values.
JString(t) == [type |-> "str", value |-> t]
JNumber(n) == [type |-> "int", value |-> n]
JObject(f) == [type |-> "dict", value |-> f]
JArray(q) == [type |-> "list", value |-> q]
ParseError == [type |-> "error", value |-> "JSONDecodeError"]

\* The value of a name token, as the json scanner maps it.
JLiteral(t) ==
    IF t = "true" THEN [type |-> "bool", value |-> TRUE]
    ELSE IF t = "false" THEN [type |-> "bool", value |-> FALSE]
    ELSE IF t = "null" THEN [type |-> "NoneType", value |-> "None"]
    ELSE IF t = "NaN" THEN [type |-> "float", value |-> "nan"]
    ELSE IF t = "Infinity" THEN [type |-> "float", value |-> "inf"]
    ELSE IF t = "-Infinity" THEN [type |-> "float", value |-> "-inf"]
    ELSE ParseError

\* JSON whitespace (space, tab, line feed, carriage return): json.loads skips
\* it before, between and after tokens.
IsWhitespace(t) == t \in {Punct(" "), Punct("\t"), Punct("\n"), Punct("\r")}
NotWhitespace(t) == ~IsWhitespace(t)
SkipWhitespace(toks) == SelectSeq(toks, NotWhitespace)

Parsed(v, next) == [ok |-> TRUE, value |-> v, next |-> next]
Failed == [ok |-> FALSE, value |-> ParseError, next |-> 1]

RECURSIVE loadsValue(_, _)
RECURSIVE loadsMembers(_, _, _)
RECURSIVE loadsElements(_, _, _)

\* Parses one value at position i of the whitespace-free toks: a string, a
\* number, a name, an object or an array.  The result tells the position
\* after the value.
loadsValue(toks, i) ==
    IF i > Len(toks) THEN Failed
    ELSE IF toks[i].kind = "string" THEN Parsed(JString(toks[i].text), i + 1)
    ELSE IF toks[i].kind = "number" THEN Parsed(JNumber(toks[i].text), i + 1)
    ELSE IF toks[i].kind = "literal"
         THEN (IF JLiteral(toks[i].text) = ParseError THEN Failed
               ELSE Parsed(JLiteral(toks[i].text), i + 1))
    ELSE IF toks[i] = Punct("{")
         THEN (IF i + 1 <= Len(toks) /\ toks[i + 1] = Punct("}")
               THEN Parsed(JObject([k \in {} |-> ParseError]), i + 2)
               ELSE loadsMembers(toks, i + 1, [k \in {} |-> ParseError]))
    ELSE IF toks[i] = Punct("[")
         THEN (IF i + 1 <= Len(toks) /\ toks[i + 1] = Punct("]")
               THEN Parsed(JArray(<<>>), i + 2)
               ELSE loadsElements(toks, i + 1, <<>>))
    ELSE Failed

\* Parses the members of an object from position i on into acc, up to the
\* closing brace; a repeated key keeps its last value.
loadsMembers(toks, i, acc) ==
    IF i + 1 > Len(toks) THEN Failed
    ELSE IF toks[i].kind # "string" \/ toks[i + 1] # Punct(":") THEN Failed
    ELSE LET k == toks[i].text
             v == loadsValue(toks, i + 2)
             acc2 == [x \in (DOMAIN acc) \cup {k} |->
                         IF x = k THEN v.value ELSE acc[x]]
         IN IF ~v.ok \/ v.next > Len(toks) THEN Failed
            ELSE IF toks[v.next] = Punct("}") THEN Parsed(JObject(acc2), v.next + 1)
            ELSE IF toks[v.next] = Punct(",") THEN loadsMembers(toks, v.next + 1, acc2)
            ELSE Failed

\* Parses the elements of an array from position i on into acc, up to the
\* closing bracket.
loadsElements(toks, i, acc) ==
    LET v == loadsValue(toks, i)
    IN IF ~v.ok \/ v.next > Len(toks) THEN Failed
       ELSE IF toks[v.next] = Punct("]")
            THEN Parsed(JArray(Append(acc, v.value)), v.next + 1)
       ELSE IF toks[v.next] = Punct(",")
            THEN loadsElements(toks, v.next + 1, Append(acc, v.value))
       ELSE Failed

\* What a client gets from json.loads(body): the one value the body holds.
loads(toks) ==
    LET ts == SkipWhitespace(toks)
        v == loadsValue(ts, 1)
    IN IF v.ok /\ v.next = Len(ts) + 1 THEN v.value ELSE ParseError

-----------------------------------------------------------------------------
(* Route registration (lines 3 and 5)                                      *)

\* Blueprint.route(rule, **options) -> add_url_rule: the rule as the url map
\* holds it.  Werkzeug adds HEAD to a rule that allows GET; Flask adds
\* OPTIONS and answers it itself unless the view lists OPTIONS.
route(rule, methods) ==
    [rule |-> rule,
     endpoint |-> "api.health_check",
     methods |-> methods \cup {"OPTIONS"}
                   \cup (IF "GET" \in methods THEN {"HEAD"} ELSE {}),
     provide_automatic_options |-> "OPTIONS" \notin methods]

\* A registration for POST instead of the default GET.
api_routes_post == {route("/health", {"POST"})}

\* A registration that also serves the root path.
api_routes_root == {route("/health", {"GET"}), route("/", {"GET"})}

\* The blueprint's rules once the module is imported: one route() call with
\* no methods option, i.e. Flask's default ("GET",).
api_routes == {route("/health", {"GET"})}

\* The module's global state after import.
ModuleAtImport == [n \in {"api_routes"} |-> api_routes]

-----------------------------------------------------------------------------
(* Responses                                                               *)

Response(status, ctype, allow, body) ==
    [status |-> status, content_type |-> ctype, allow |-> allow, body |-> body]

NoResponse == Response(0, "", {}, <<>>)
Html(t) == <<[kind |-> "html", text |-> t]>>
TextHtml == "text/html; charset=utf-8"

\* werkzeug.exceptions rendered by Flask.handle_http_exception.
NotFound == Response(404, TextHtml, {}, Html("404 Not Found"))
MethodNotAllowed(valid) == Response(405, TextHtml, valid, Html("405 Method Not Allowed"))
InternalServerError == Response(500, TextHtml, {}, Html("500 Internal Server Error"))

\* Flask.make_default_options_response.
OptionsResponse(valid) == Response(200, TextHtml, valid, <<>>)

\* werkzeug MapAdapter.match: a rule for the path and the method, else 405
\* when some rule has the path, else 404.  Rule "/health" has no trailing
\* slash, so "/health/" does not match it.
match(rules, req) ==
    LET byPath == {r \in rules : r.rule = req.path}
        ok == {r \in byPath : req.method \in r.methods}
    IN IF ok # {} THEN [kind |-> "rule", rules |-> ok, allow |-> {}]
       ELSE IF byPath # {}
            THEN [kind |-> "405", rules |-> {},
                  allow |-> UNION {r.methods : r \in byPath}]
            ELSE [kind |-> "404", rules |-> {}, allow |-> {}]

-----------------------------------------------------------------------------
(* The heap of mapping objects                                             *)

\* heap is a function from the allocated addresses to mappings.
Min(S) == CHOOSE x \in S : \A y \in S : x <= y
\* The address of a new object for holder own: any free address serves, and
\* the holder's own cell is taken when it is free.
Alloc(h, own) == IF own \notin DOMAIN h THEN own ELSE Min(Addr \ DOMAIN h)
Store(h, a, d) == [x \in (DOMAIN h) \cup {a} |-> IF x = a THEN d ELSE h[x]]

NoRv == [type |-> "none", refs |-> {}, text |-> ""]

\* Every address some worker or caller still refers to.
Refs(ws, hs) ==
    UNION {ws[w].rv.refs : w \in DOMAIN ws} \cup UNION {hs[c] : c \in DOMAIN hs}

\* Reference counting: an object nobody refers to is gone.
Collect(h, live) == [x \in (DOMAIN h) \cap live |-> h[x]]

-----------------------------------------------------------------------------
(* The view function (lines 6 and 7)                                       *)

\* A different literal in the return statement.
Payload_down == [k \in {"status"} |-> "tampered"]

\* The literal of the return statement.
Payload == [k \in {"status"} |-> STATUS_TEXT]

ViewResult(outcome, rv, mod, h) ==
    [outcome |-> outcome, rv |-> rv, module |-> mod, heap |-> h]

DictRv(a) == [type |-> "dict", refs |-> {a}, text |-> ""]

\* Returns a mapping kept from an earlier call while one is still alive.
health_check_shared(req, mod, h, a) ==
    IF DOMAIN h # {}
    THEN ViewResult("return", DictRv(Min(DOMAIN h)), mod, h)
    ELSE ViewResult("return", DictRv(a), mod, Store(h, a, Payload))

\* Counts calls in a module global and reports differently after the first.
health_check_counting(req, mod, h, a) ==
    LET seen == "hits" \in DOMAIN mod
        mod2 == [n \in (DOMAIN mod) \cup {"hits"} |->
                    IF n = "hits" THEN {} ELSE mod[n]]
        d == [k \in {"status"} |-> IF seen THEN "tampered" ELSE STATUS_TEXT]
    IN ViewResult("return", DictRv(a), mod2, Store(h, a, d))

\* Echoes the presence of a query string in the mapping.
health_check_echo(req, mod, h, a) ==
    LET d == IF req.query = "" THEN Payload
             ELSE [k \in {"status", "extra"} |->
                      IF k = "status" THEN STATUS_TEXT ELSE "tampered"]
    IN ViewResult("return", DictRv(a), mod, Store(h, a, d))

\* Parses the query string first and fails on a non-empty one.
health_check_raises(req, mod, h, a) ==
    IF req.query # "" THEN ViewResult("raise", NoRv, mod, h)
    ELSE ViewResult("return", DictRv(a), mod, Store(h, a, Payload))

\* Returns the status text itself rather than a mapping.
health_check_text(req, mod, h, a) ==
    ViewResult("return", [type |-> "str", refs |-> {}, text |-> STATUS_TEXT], mod, h)

\* health_check(): evaluates the dict display, which builds a new dict, and
\* returns it.  It takes no argument and names no global; req, mod and h are
\* the request context, the module globals and the heap it runs in, and a is
\* the address a new object gets.
health_check(req, mod, h, a) ==
    ViewResult("return", DictRv(a), mod, Store(h, a, Payload))

\* Flask.make_response on the view's return value: a dict goes through
\* jsonify, a str becomes an HTML body; the status defaults to 200.
make_response(rv, h) ==
    IF rv.type = "dict"
    THEN Response(200, "application/json", {}, dumps(h[Min(rv.refs)]))
    ELSE Response(200, TextHtml, {}, Html(rv.text))

\* werkzeug Response.get_app_iter: a HEAD response is sent without body.
Finalize(req, resp) ==
    IF req.method = "HEAD" THEN [resp EXCEPT !.body = <<>>] ELSE resp

-----------------------------------------------------------------------------
(* State                                                                   *)

Worker(pc, req, rv, resp) == [pc |-> pc, req |-> req, rv |-> rv, resp |-> resp]
IdleWorker == Worker("idle", NoRequest, NoRv, NoResponse)

NoExchange == [req |-> NoRequest, resp |-> NoResponse]

\* first keeps the first completed GET /health exchange.
Record(f, req, resp) ==
    IF f = NoExchange /\ IsHealthGet(req) THEN [req |-> req, resp |-> resp] ELSE f

Init ==
    /\ module = ModuleAtImport
    /\ workers = [w \in Workers |-> IdleWorker]
    /\ heap = [a \in {} |-> Payload]
    /\ held = [c \in Callers |-> {}]
    /\ first = NoExchange

-----------------------------------------------------------------------------
(* Serving a request: Flask.full_dispatch_request, in three steps          *)

\* A free worker takes request req and routes it.  Routing errors and the
\* automatic OPTIONS answer complete at once; otherwise the view is due.
Receive(w, req) ==
    /\ workers[w].pc \in {"idle", "done"}
    /\ LET m == match(module["api_routes"], req)
           resp == IF m.kind = "404" THEN NotFound
                   ELSE IF m.kind = "405" THEN MethodNotAllowed(m.allow)
                   ELSE OptionsResponse((CHOOSE r \in m.rules : TRUE).methods)
           auto == /\ m.kind = "rule"
                   /\ req.method = "OPTIONS"
                   /\ (CHOOSE r \in m.rules : TRUE).provide_automatic_options
       IN IF m.kind = "rule" /\ ~auto
          THEN /\ workers' = [workers EXCEPT ![w] = Worker("matched", req, NoRv, NoResponse)]
               /\ first' = first
          ELSE /\ workers' = [workers EXCEPT ![w] = Worker("done", req, NoRv, resp)]
               /\ first' = Record(first, req, resp)
    /\ UNCHANGED <<module, heap, held>>

\* The worker calls the view function.  An exception becomes a 500.
Handle(w) ==
    /\ workers[w].pc = "matched"
    /\ LET res == health_check(workers[w].req, module, heap, Alloc(heap, w))
           ws == IF res.outcome = "return"
                 THEN [workers EXCEPT ![w].pc = "returned", ![w].rv = res.rv]
                 ELSE [workers EXCEPT ![w].pc = "done",
                                      ![w].resp = InternalServerError]
       IN /\ res.outcome \in {"return", "raise"}
          /\ workers' = ws
          /\ module' = res.module
          /\ heap' = Collect(res.heap, Refs(ws, held))
          /\ first' = IF res.outcome = "return" THEN first
                      ELSE Record(first, workers[w].req, InternalServerError)
    /\ UNCHANGED held

\* The worker turns the return value into the response and lets go of it.
Respond(w) ==
    /\ workers[w].pc = "returned"
    /\ LET resp == Finalize(workers[w].req, make_response(workers[w].rv, heap))
           ws == [workers EXCEPT ![w].pc = "done", ![w].rv = NoRv, ![w].resp = resp]
       IN /\ workers' = ws
          /\ heap' = Collect(heap, Refs(ws, held))
          /\ first' = Record(first, workers[w].req, resp)
    /\ UNCHANGED <<module, held>>

-----------------------------------------------------------------------------
(* Direct callers of health_check (a test, a hook)                         *)

\* Caller c calls health_check() itself and keeps what it returns.
DirectCall(c) ==
    /\ held[c] = {}
    /\ LET res == health_check(NoRequest, module, heap, Alloc(heap, MaxWorkers + c))
           hs == [held EXCEPT ![c] = res.rv.refs]
       IN /\ res.outcome = "return"
          /\ res.rv.refs # {}
          /\ held' = hs
          /\ module' = res.module
          /\ heap' = Collect(res.heap, Refs(workers, hs))
    /\ UNCHANGED <<workers, first>>

Mutations == {"add", "remove", "change"}

\* d["extra"] = "tampered", del d["status"], d["status"] = "tampered".
ApplyMutation(kind, d) ==
    IF kind = "add"
    THEN [k \in (DOMAIN d) \cup {"extra"} |-> IF k = "extra" THEN "tampered" ELSE d[k]]
    ELSE IF kind = "remove"
         THEN [k \in (DOMAIN d) \ {"status"} |-> d[k]]
         ELSE [k \in (DOMAIN d) \cup {"status"} |-> IF k = "status" THEN "tampered" ELSE d[k]]

\* Caller c mutates the mapping it holds.
Mutate(c, kind) ==
    /\ held[c] # {}
    /\ heap' = [heap EXCEPT ![Min(held[c])] = ApplyMutation(kind, @)]
    /\ heap' # heap
    /\ UNCHANGED <<module, workers, held, first>>

\* Caller c drops the mapping it holds.
Drop(c) ==
    /\ held[c] # {}
    /\ held' = [held EXCEPT ![c] = {}]
    /\ heap' = Collect(heap, Refs(workers, held'))
    /\ UNCHANGED <<module, workers, first>>

-----------------------------------------------------------------------------
(* Specifications                                                          *)

\* Several workers serve at once while callers use health_check directly.
Next ==
    \/ \E w \in Workers, req \in ConcurrentRequests : Receive(w, req)
    \/ \E w \in Workers : Handle(w)
    \/ \E w \in Workers : Respond(w)
    \/ \E c \in Callers : DirectCall(c)
    \/ \E c \in Callers, kind \in Mutations : Mutate(c, kind)
    \/ \E c \in Callers : Drop(c)

Spec == Init /\ [][Next]_vars

\* One client sends any request, one after the other, to worker 1.
NextSerial ==
    \/ \E req \in AllRequests : Receive(1, req)
    \/ Handle(1)
    \/ Respond(1)

SpecSerial == Init /\ [][NextSerial]_vars

TypeOK ==
    /\ DOMAIN module = {"api_routes"}
    /\ \A w \in Workers : workers[w].pc \in {"idle", "matched", "returned", "done"}
    /\ DOMAIN heap \subseteq Addr
    /\ \A a \in DOMAIN heap : DOMAIN heap[a] \subseteq Keys
    /\ DOMAIN heap = Refs(workers, held)

-----------------------------------------------------------------------------
(* Properties                                                              *)

\* The documented body of the health response.
ExpectedBody == [k \in {"status"} |-> "Backend Case Study API Running"]

\* The same as a parsed JSON document.
ExpectedJson ==
    JObject([k \in {"status"} |-> JString("Backend Case Study API Running")])

Done(w) == workers[w].pc = "done"
HealthDone(w) == Done(w) /\ IsHealthGet(workers[w].req)

\* C1: every completed GET /health exchange, whatever was served before it,
\* has status exactly 200.
C1_HealthStatus200 ==
    \A w \in Workers : HealthDone(w) => workers[w].resp.status = 200

\* A GET /health answered after an earlier, different GET /health.
C1_Witness ==
    /\ HealthDone(1)
    /\ workers[1].resp.status = 200
    /\ first # NoExchange
    /\ first.req # workers[1].req

\* C2: the body of every GET /health response parses as JSON to exactly the
\* mapping with the single key "status" and the documented text.
C2_HealthBodyExact ==
    \A w \in Workers : HealthDone(w) => loads(workers[w].resp.body) = ExpectedJson

\* A GET /health response whose body is the serialised one-member object.
C2_Witness ==
    /\ HealthDone(1)
    /\ Len(workers[1].resp.body) = 6
    /\ loads(workers[1].resp.body).type = "dict"
    /\ DOMAIN loads(workers[1].resp.body).value = {"status"}

\* C3 as stated: every request other than GET /health, HEAD and OPTIONS on
\* /health included, is answered 404 or 405 and never 200.
C3_OtherRequestsRejected ==
    \A w \in Workers :
        (Done(w) /\ ~IsHealthGet(workers[w].req))
            => workers[w].resp.status \in {404, 405}

\* C3 as amended: a request to another path is answered 404; POST, PUT,
\* DELETE and PATCH on /health are answered 405; HEAD and OPTIONS on /health
\* are answered 200 by the framework, HEAD with the health response's headers
\* and no body, OPTIONS with an Allow header and no body; none of them gets
\* the health body, and the route table holds the single rule /health,
\* registered for GET with HEAD and OPTIONS added.
C3_OtherRequestsByFramework ==
    /\ \A w \in Workers :
        (Done(w) /\ ~IsHealthGet(workers[w].req)) =>
            LET req == workers[w].req
                resp == workers[w].resp
            IN /\ req.path # "/health" => resp.status = 404
               /\ (req.path = "/health" /\ req.method \notin {"HEAD", "OPTIONS"})
                     => (resp.status = 405 /\ resp.allow = {"GET", "HEAD", "OPTIONS"})
               /\ (req.path = "/health" /\ req.method = "HEAD")
                     => (resp.status = 200 /\ resp.body = <<>>
                           /\ resp.content_type = "application/json")
               /\ (req.path = "/health" /\ req.method = "OPTIONS")
                     => (resp.status = 200 /\ resp.body = <<>>
                           /\ resp.allow = {"GET", "HEAD", "OPTIONS"})
               /\ loads(resp.body) # ExpectedJson
    /\ Cardinality(module["api_routes"]) = 1
    /\ \A r \in module["api_routes"] :
          r.rule = "/health" /\ r.methods = {"GET", "HEAD", "OPTIONS"}

\* A HEAD /health answered 200 without body.
C3_Witness ==
    /\ Done(1)
    /\ workers[1].req.method = "HEAD"
    /\ workers[1].req.path = "/health"
    /\ workers[1].resp.status = 200
    /\ workers[1].resp.body = <<>>

\* C4: repeated GET /health calls are answered as the first one was, and the
\* module's state after any number of calls is its state at import.
C4_Idempotent ==
    /\ module = ModuleAtImport
    /\ \A w \in Workers :
          HealthDone(w) => /\ first # NoExchange
                           /\ workers[w].resp.status = first.resp.status
                           /\ workers[w].resp.body = first.resp.body

\* Two completed GET /health calls besides the call in progress.
C4_Witness ==
    /\ HealthDone(1)
    /\ HealthDone(2)
    /\ first.req # workers[1].req
    /\ module = ModuleAtImport

\* C5: two GET /health requests that differ in query, headers or body get
\* the same status and body.
C5_InputIndependent ==
    \A w \in Workers :
        (HealthDone(w) /\ first # NoExchange) =>
            /\ workers[w].resp.status = first.resp.status
            /\ workers[w].resp.body = first.resp.body
            /\ workers[w].resp.content_type = first.resp.content_type

\* Two answered GET /health requests that differ in query, headers and body.
C5_Witness ==
    /\ HealthDone(1)
    /\ first # NoExchange
    /\ workers[1].req.query # first.req.query
    /\ workers[1].req.headers # first.req.headers
    /\ workers[1].req.body # first.req.body

\* C6: every GET /health response has content-type application/json and
\* carries a JSON document.
C6_ContentTypeJson ==
    \A w \in Workers :
        HealthDone(w) => /\ workers[w].resp.content_type = "application/json"
                         /\ loads(workers[w].resp.body) # ParseError

\* A GET /health response with the JSON content type, sent with a header.
C6_Witness ==
    /\ HealthDone(1)
    /\ workers[1].req.headers # "none"
    /\ workers[1].resp.content_type = "application/json"

\* C7: an invocation of health_check never fails: a worker that reached the
\* view can always run it, comes back holding the payload, and no request
\* ends in a 500.
C7_HandlerCannotFail ==
    \A w \in Workers :
        /\ workers[w].pc = "matched" => ENABLED Handle(w)
        /\ workers[w].pc = "returned" =>
              /\ workers[w].rv.type = "dict"
              /\ workers[w].rv.refs \subseteq DOMAIN heap
              /\ \A a \in workers[w].rv.refs : heap[a] = ExpectedBody
        /\ Done(w) => workers[w].resp.status # 500

\* A worker back from the view with the payload while a caller holds a
\* mapping it has emptied.
C7_Witness ==
    /\ workers[1].pc = "returned"
    /\ workers[1].req.query # ""
    /\ \E c \in Callers : held[c] # {} /\ \A a \in held[c] : DOMAIN heap[a] = {}

\* C8: under every interleaving of the workers, each GET /health gets 200
\* and the fixed body, and no worker ever has to wait for another one.
C8_ConcurrentRequests ==
    \A w \in Workers :
        /\ HealthDone(w) => /\ workers[w].resp.status = 200
                            /\ workers[w].resp.body = dumps(ExpectedBody)
        /\ workers[w].pc \in {"idle", "done"} =>
              \A req \in ConcurrentRequests : ENABLED Receive(w, req)
        /\ workers[w].pc = "matched" => ENABLED Handle(w)
        /\ workers[w].pc = "returned" => ENABLED Respond(w)

\* A GET /health answered while another worker is still between the view and
\* its response to a GET /health.
C8_Witness ==
    /\ HealthDone(1)
    /\ workers[1].resp.status = 200
    /\ workers[2].pc = "returned"
    /\ IsHealthGet(workers[2].req)

NewMapping(refs) ==
    /\ refs # {}
    /\ refs \cap DOMAIN heap = {}
    /\ \A a \in refs : a \in DOMAIN heap' /\ heap'[a] = ExpectedBody

\* C9: every invocation of health_check returns a new mapping equal to the
\* payload, whatever callers did to mappings returned earlier, and a mapping
\* a worker holds stays the payload until it is sent.
C9_FreshMapping ==
    /\ [](\A w \in Workers :
            workers[w].pc = "returned" =>
                \A a \in workers[w].rv.refs : heap[a] = ExpectedBody)
    /\ [][/\ \A w \in Workers :
               (workers[w].pc = "matched" /\ workers'[w].pc = "returned")
                   => NewMapping(workers'[w].rv.refs)
          /\ \A c \in Callers :
               (held[c] = {} /\ held'[c] # {}) => NewMapping(held'[c])]_vars

\* A worker holding the payload while a caller holds a mapping it changed.
C9_Witness ==
    /\ \E w \in Workers :
          /\ workers[w].pc = "returned"
          /\ \A a \in workers[w].rv.refs : heap[a] = ExpectedBody
    /\ \E c \in Callers :
          held[c] # {} /\ \A a \in held[c] : heap[a] # ExpectedBody

====
